---- MODULE Spec2Model ----
(***************************************************************************)
(* HackGULastRecodePatch.py: the resolution-table patcher for the game's  *)
(* six DLLs.  One run of patch() is modelled as the sequence of its        *)
(* statements: load the YAML configuration, look up the desktop            *)
(* resolution, encode the values, read patch.txt, then six edit_dll calls. *)
(* Text is a sequence of one-character strings, file content a sequence    *)
(* of byte values 0..255.                                                  *)
(***************************************************************************)
EXTENDS Integers, Sequences, FiniteSets, TLC

VARIABLES pc, idx, run, faults, files, record, yaml_data, res, enc,
          search_pattern, replace_pattern, sigs,
          stage, attempted, opened, last, files0, record0, patchedAt,
          patchedRun, recordRun, toolRecord, cleanStart

vars == <<pc, idx, run, faults, files, record, yaml_data, res, enc,
          search_pattern, replace_pattern, sigs,
          stage, attempted, opened, last, files0, record0, patchedAt,
          patchedRun, recordRun, toolRecord, cleanStart>>

\* Number of consecutive runs of the tool that are explored.
MaxRuns == 2
\* Number of environment faults (file missing, I/O error) over a behaviour.
MaxFaults == 1

\* ------------------------------------------------------------------ text
Min(S) == CHOOSE x \in S : \A y \in S : x <= y
Max(S) == CHOOSE x \in S : \A y \in S : x >= y

Whitespace == {" ", "\n"}
HexDigits == <<"0","1","2","3","4","5","6","7","8","9","A","B","C","D","E","F">>
IsHexDigit(c) == \E i \in 1..16 : HexDigits[i] = c
HexVal(c) == (CHOOSE i \in 1..16 : HexDigits[i] = c) - 1

\* str.strip(): from the first to the last non-whitespace character
Strip(s) ==
  IF \A i \in 1..Len(s) : s[i] \in Whitespace THEN <<>>
  ELSE LET first == CHOOSE i \in 1..Len(s) :
                      s[i] \notin Whitespace /\ \A j \in 1..(i - 1) : s[j] \in Whitespace
           final == CHOOSE i \in 1..Len(s) :
                      s[i] \notin Whitespace /\ \A j \in (i + 1)..Len(s) : s[j] \in Whitespace
       IN  SubSeq(s, first, final)

\* str.split(): the maximal runs of non-whitespace characters, in order.
\* SplitIn(s, lo, hi) splits s[lo..hi] at one of its whitespace characters.
RECURSIVE SplitIn(_, _, _)
SplitIn(s, lo, hi) ==
  IF lo > hi THEN <<>>
  ELSE LET mid == (lo + hi) \div 2
       IN  IF \E i \in mid..hi : s[i] \in Whitespace
           THEN LET m == CHOOSE i \in mid..hi : s[i] \in Whitespace
                IN  SplitIn(s, lo, m - 1) \o SplitIn(s, m + 1, hi)
           ELSE IF \E i \in lo..(mid - 1) : s[i] \in Whitespace
           THEN LET m == CHOOSE i \in lo..(mid - 1) : s[i] \in Whitespace
                IN  SplitIn(s, lo, m - 1) \o SplitIn(s, m + 1, hi)
           ELSE <<SubSeq(s, lo, hi)>>
Split(s) == SplitIn(s, 1, Len(s))

\* file.readlines()[0]: the text up to and including the first newline
FirstLine(text) ==
  LET nl == {i \in 1..Len(text) : text[i] = "\n"}
  IN  IF nl = {} THEN text ELSE SubSeq(text, 1, Min(nl))

\* f"{byte:02X}"
Hex2(byte) == <<HexDigits[(byte \div 16) + 1], HexDigits[(byte % 16) + 1]>>

\* " ".join(f"{byte:02X}" for byte in bs)
RECURSIVE JoinHex(_)
JoinHex(bs) ==
  IF bs = <<>> THEN <<>>
  ELSE IF Len(bs) = 1 THEN Hex2(bs[1])
  ELSE Hex2(bs[1]) \o <<" ">> \o JoinHex(Tail(bs))

\* s * n
RECURSIVE Repeat(_, _)
Repeat(s, n) == IF n <= 0 THEN <<>> ELSE s \o Repeat(s, n - 1)

\* int(token, 16) for a token of hex digits; -1 stands for ValueError
RECURSIVE IntBase16(_)
IntBase16(token) ==
  IF token = <<>> THEN -1
  ELSE IF \E i \in 1..Len(token) : ~IsHexDigit(token[i]) THEN -1
  ELSE IF Len(token) = 1 THEN HexVal(token[1])
  ELSE 16 * IntBase16(SubSeq(token, 1, Len(token) - 1)) + HexVal(token[Len(token)])

\* one token of parse_signature: a wildcard is the placeholder 0
TokenValue(token) ==
  IF token = <<"?">> \/ token = <<"?", "?">> THEN 0 ELSE IntBase16(token)

\* parse_signature(signature): ok = FALSE stands for the ValueError raised by
\* int(token, 16) or by bytes() on a value outside 0..255
parse_signature(signature) ==
  LET tokens == Split(signature)
      values == [i \in 1..Len(tokens) |-> TokenValue(tokens[i])]
  IN  IF \E i \in 1..Len(values) : values[i] < 0 \/ values[i] > 255
      THEN [ok |-> FALSE, bytes |-> <<>>]
      ELSE [ok |-> TRUE, bytes |-> values]

\* ------------------------------------------------------------- integers
BytesPerInt == 4
TableSlots == 15

\* n.to_bytes(4, byteorder="little", signed=False) raises OverflowError for
\* n < 0 (and for n >= 2^32, which no value of the model reaches)
ToBytesFits(n) == n >= 0
to_bytes(n) == [i \in 1..BytesPerInt |-> (n \div (256 ^ (i - 1))) % 256]

\* (height << 4).to_bytes(4, ...): height << 4 needs more than 32 bits from
\* height = 2^28 on; the bytes are computed without forming the product
ShiftLimit == 268435456
SpecialFits(height) == height >= 0 /\ height < ShiftLimit
special_bytes(height) ==
  <<(height % 16) * 16, (height \div 16) % 256,
    (height \div 4096) % 256, (height \div 1048576) % 256>>

\* int(x / 2): true division, then truncation toward zero
IntHalf(x) == IF x >= 0 THEN x \div 2 ELSE -((-x) \div 2)

\* offset = int((desktop_width - width) / 2)
center_offset(desktop_width, width) == IntHalf(desktop_width - width)

\* a variant of effective that substitutes only when both values are zero
effective_when_both_zero(width, height, desktop_width, desktop_height) ==
  IF width = 0 /\ height = 0
  THEN <<desktop_width, desktop_height>>
  ELSE <<width, height>>

\* if width == 0 or height == 0: width, height = desktop_width, desktop_height
effective(width, height, desktop_width, desktop_height) ==
  IF width = 0 \/ height = 0
  THEN <<desktop_width, desktop_height>>
  ELSE <<width, height>>

\* a variant of make_replace_pattern with one slot too few
make_replace_pattern_short(width, height) ==
  Repeat(width \o <<" ">> \o height \o <<" ">>, TableSlots - 1)

\* replace_pattern = f"{width} {height} " * 15
make_replace_pattern(width, height) ==
  Repeat(width \o <<" ">> \o height \o <<" ">>, TableSlots)

\* the literal default search pattern of patch()
default_search_pattern ==
  <<"2","0"," ","0","3"," ","0","0"," ","0","0"," ","5","8"," ","0","2"," ","0","0"," ","0","0"," ",
     "0","0"," ","0","4"," ","0","0"," ","0","0"," ","0","0"," ","0","3"," ","0","0"," ","0","0"," ",
     "0","0"," ","0","5"," ","0","0"," ","0","0"," ","D","0"," ","0","2"," ","0","0"," ","0","0"," ",
     "0","0"," ","0","5"," ","0","0"," ","0","0"," ","2","0"," ","0","3"," ","0","0"," ","0","0"," ",
     "0","0"," ","0","5"," ","0","0"," ","0","0"," ","0","0"," ","0","4"," ","0","0"," ","0","0"," ",
     "5","0"," ","0","5"," ","0","0"," ","0","0"," ","0","0"," ","0","3"," ","0","0"," ","0","0"," ",
     "A","0"," ","0","5"," ","0","0"," ","0","0"," ","8","4"," ","0","3"," ","0","0"," ","0","0"," ",
     "4","0"," ","0","6"," ","0","0"," ","0","0"," ","8","4"," ","0","3"," ","0","0"," ","0","0"," ",
     "4","0"," ","0","6"," ","0","0"," ","0","0"," ","B","0"," ","0","4"," ","0","0"," ","0","0"," ",
     "9","0"," ","0","6"," ","0","0"," ","0","0"," ","1","A"," ","0","4"," ","0","0"," ","0","0"," ",
     "8","0"," ","0","7"," ","0","0"," ","0","0"," ","3","8"," ","0","4"," ","0","0"," ","0","0"," ",
     "8","0"," ","0","7"," ","0","0"," ","0","0"," ","B","0"," ","0","4"," ","0","0"," ","0","0"," ",
     "0","0"," ","0","A"," ","0","0"," ","0","0"," ","A","0"," ","0","5"," ","0","0"," ","0","0"," ",
     "0","0"," ","0","A"," ","0","0"," ","0","0"," ","4","0"," ","0","6"," ","0","0"," ","0","0"," ",
     "0","0"," ","0","F"," ","0","0"," ","0","0"," ","7","0"," ","0","8"," ","0","0"," ","0","0">>

\* --------------------------------------------------------------- files
Targets == <<"../hackGU_terminal.dll", "../hackGU_title.dll", "../hackGU_vol1.dll",
             "../hackGU_vol2.dll", "../hackGU_vol3.dll", "../hackGU_vol4.dll">>
NumTargets == Len(Targets)

\* a variant of find that returns the last occurrence
find_last(data, sp) ==
  LET hits == {o \in 0..(Len(data) - Len(sp)) :
                 \A j \in 1..Len(sp) : data[o + j] = sp[j]}
  IN  IF hits = {} THEN -1 ELSE Max(hits)

\* a variant of find whose answer for an absent sequence is a valid offset
find_or_zero(data, sp) ==
  LET hits == {o \in 0..(Len(data) - Len(sp)) :
                 \A j \in 1..Len(sp) : data[o + j] = sp[j]}
  IN  IF hits = {} THEN 0 ELSE Min(hits)

\* data.find(sp1, 0): lowest offset of sp in data, -1 when absent
find(data, sp) ==
  LET hits == {o \in 0..(Len(data) - Len(sp)) :
                 \A j \in 1..Len(sp) : data[o + j] = sp[j]}
  IN  IF hits = {} THEN -1 ELSE Min(hits)

\* a variant of seek_write that seeks one byte too far
seek_write_shifted(data, offset, rp) ==
  SubSeq(data, 1, offset + 1) \o rp \o SubSeq(data, offset + Len(rp) + 2, Len(data))

\* file.seek(offset); file.write(rp) on a file holding data
seek_write(data, offset, rp) ==
  SubSeq(data, 1, offset) \o rp \o SubSeq(data, offset + Len(rp) + 1, Len(data))

\* open("patch.txt", "w").write(replace_pattern)
write_record(text) == [exists |-> TRUE, text |-> text]

\* a variant of edit_dll that writes patch.txt as soon as the target is open,
\* before the search
edit_dll_record_first(data, rec, sig, replace, open_env, rec_env) ==
  LET sp == sig.sp1.bytes
      hits == {o \in 0..(Len(data) - Len(sp)) :
                 \A j \in 1..Len(sp) : data[o + j] = sp[j]}
      offset == IF hits = {} THEN -1 ELSE Min(hits)
      call == [result |-> "valueerror", data |-> data, record |-> rec,
               offset |-> -1, sp |-> sp, rp |-> sig.rp.bytes, opened |-> {}]
  IN  IF ~sig.sp1.ok \/ ~sig.rp.ok THEN call
      ELSE IF open_env # "ok" THEN [call EXCEPT !.result = "unopened"]
      ELSE IF rec_env # "ok"
        THEN [call EXCEPT !.result = "recordfail", !.opened = {"dll"}]
      ELSE IF offset = -1
        THEN [call EXCEPT !.result = "notfound", !.opened = {"dll", "patch.txt"},
                          !.record = [exists |-> TRUE, text |-> replace]]
      ELSE [call EXCEPT !.result = "patched", !.offset = offset,
                        !.data = SubSeq(data, 1, offset) \o sig.rp.bytes
                                   \o SubSeq(data, offset + Len(sig.rp.bytes) + 1, Len(data)),
                        !.record = [exists |-> TRUE, text |-> replace],
                        !.opened = {"dll", "patch.txt"}]

\* edit_dll, the statements before the try block: search_pattern.strip() and
\* the two parse_signature calls
signatures(search, replace) ==
  [sp1 |-> parse_signature(Strip(search)), rp |-> parse_signature(replace)]

\* edit_dll(game_path, search_pattern, replace_pattern), from the parsed
\* signatures sig on, for a target holding data and patch.txt holding rec.
\* open_env is what open(game_path, 'rb+') does ("ok", "missing" =
\* FileNotFoundError, "ioerror" = another OSError) and rec_env what
\* open("patch.txt", "w") does ("ok", "ioerror").  Results: "valueerror" is
\* the ValueError of parse_signature, raised before the try block, which
\* edit_dll does not catch; "unopened" is either except clause taken at the
\* opening of the target (both only print); "recordfail" is the IOError
\* clause taken at the opening of patch.txt, after the target was written.
edit_dll(data, rec, sig, replace, open_env, rec_env) ==
  LET offset == find(data, sig.sp1.bytes)
      call == [result |-> "valueerror", data |-> data, record |-> rec,
               offset |-> -1, sp |-> sig.sp1.bytes, rp |-> sig.rp.bytes,
               opened |-> {}]
  IN  IF ~sig.sp1.ok \/ ~sig.rp.ok THEN call
      ELSE IF open_env # "ok" THEN [call EXCEPT !.result = "unopened"]
      ELSE IF offset = -1
        THEN [call EXCEPT !.result = "notfound", !.opened = {"dll"}]
      ELSE IF rec_env # "ok"
        THEN [call EXCEPT !.result = "recordfail", !.offset = offset,
                          !.data = seek_write(data, offset, sig.rp.bytes),
                          !.opened = {"dll"}]
      ELSE [call EXCEPT !.result = "patched", !.offset = offset,
                        !.data = seek_write(data, offset, sig.rp.bytes),
                        !.record = write_record(replace),
                        !.opened = {"dll", "patch.txt"}]

\* a variant of config_outcome that goes on with whatever was read
config_lenient(cfg) == "ok"

\* what patch() makes of the configuration: read_yaml returns None (file
\* absent or YAML error) and patch() returns; yaml_data['resolution'] or its
\* keys are missing (KeyError); width or height is no integer (TypeError in
\* the arithmetic); or the values are used
config_outcome(cfg) ==
  IF cfg.kind \in {"missing", "yamlerror"} THEN "return"
  ELSE IF cfg.kind = "nores" THEN "KeyError"
  ELSE IF cfg.kind = "nonint" THEN "TypeError"
  ELSE "ok"

\* get_desktop_resolution(): the primary monitor, else the first one
get_desktop_resolution(monitors) ==
  LET prim == {i \in 1..Len(monitors) : monitors[i].is_primary}
      m == IF prim = {} THEN monitors[1] ELSE monitors[Min(prim)]
  IN  <<m.width, m.height>>

\* ---------------------------------------------------------- environment
\* the resolution table as the game's DLLs ship it (the bytes the default
\* search pattern spells)
GameTable ==
  <<32,3,0,0,88,2,0,0,
     0,4,0,0,0,3,0,0,
     0,5,0,0,208,2,0,0,
     0,5,0,0,32,3,0,0,
     0,5,0,0,0,4,0,0,
     80,5,0,0,0,3,0,0,
     160,5,0,0,132,3,0,0,
     64,6,0,0,132,3,0,0,
     64,6,0,0,176,4,0,0,
     144,6,0,0,26,4,0,0,
     128,7,0,0,56,4,0,0,
     128,7,0,0,176,4,0,0,
     0,10,0,0,160,5,0,0,
     0,10,0,0,64,6,0,0,
     0,15,0,0,112,8,0,0>>
Header == <<77, 90, 144>>
Trailer == <<46, 114>>
Pristine == Header \o GameTable \o Trailer
TableLast == Header \o GameTable
TableTwice == GameTable \o Header \o GameTable \o Trailer
OtherBuild == Header \o SubSeq(GameTable, 5, Len(GameTable)) \o Trailer

CleanInstall == <<Pristine, TableLast, TableTwice, Pristine, Pristine, Pristine>>
MixedInstall == <<OtherBuild, Pristine, Pristine, TableLast, TableTwice, Pristine>>

NoRecord == [exists |-> FALSE, text |-> <<>>]
\* a record left by an earlier run of the tool for 800 x 600
EarlierRecord ==
  write_record(make_replace_pattern(JoinHex(to_bytes(800)), JoinHex(to_bytes(600))))
\* records edited by hand
TailRecord == write_record(<<"?","?"," ","0","F"," ","0","0"," ","0","0"," ",
                             "7","0"," ","0","8"," ","0","0"," ","0","0","\n">>)
BadTokenRecord == write_record(<<"2","0"," ","Z","Z">>)
EmptyRecord == write_record(<<>>)
BlankRecord == write_record(<<"\n">>)
\* the installations the tool is started on: the game files and patch.txt
Worlds ==
  {<<CleanInstall, NoRecord>>, <<MixedInstall, NoRecord>>,
   <<CleanInstall, EarlierRecord>>, <<MixedInstall, TailRecord>>,
   <<CleanInstall, BlankRecord>>, <<CleanInstall, BadTokenRecord>>,
   <<CleanInstall, EmptyRecord>>}

Cfg(kind, width, height) == [kind |-> kind, width |-> width, height |-> height]
Configs ==
  {Cfg("missing", 0, 0), Cfg("yamlerror", 0, 0),
   Cfg("nores", 0, 0), Cfg("nonint", 0, 0),
   Cfg("ok", 0, 0), Cfg("ok", 0, 600), Cfg("ok", 800, 0),
   Cfg("ok", 800, 600), Cfg("ok", 1921, ShiftLimit), Cfg("ok", 2560, 1440)}

Monitor(width, height, is_primary) ==
  [width |-> width, height |-> height, is_primary |-> is_primary]
MonitorLists ==
  {<<>>, <<Monitor(1920, 1080, TRUE)>>,
   <<Monitor(800, 600, FALSE), Monitor(1920, 1080, TRUE)>>,
   <<Monitor(800, 600, FALSE), Monitor(1920, 1080, FALSE)>>}

OpenOutcomes == IF faults < MaxFaults THEN {"ok", "missing", "ioerror"} ELSE {"ok"}
IoOutcomes == IF faults < MaxFaults THEN {"ok", "ioerror"} ELSE {"ok"}

\* ---------------------------------------------------------------- state
NoConfig == Cfg("unread", 0, 0)
NoRes == [width |-> 0, height |-> 0, desktop_width |-> 0, desktop_height |-> 0,
          offset |-> 0]
NoEnc == [width |-> <<>>, height |-> <<>>, offset |-> <<>>, special |-> <<>>]
NoSigs == [sp1 |-> [ok |-> FALSE, bytes |-> <<>>], rp |-> [ok |-> FALSE, bytes |-> <<>>]]
NoCall == [file |-> 0, result |-> "none", before |-> <<>>, record_before |-> NoRecord,
           offset |-> -1, sp |-> <<>>, rp |-> <<>>]

Init ==
  /\ pc = "start"
  /\ idx = 0
  /\ run = 1
  /\ faults = 0
  /\ \E w \in Worlds : files = w[1] /\ record = w[2]
  /\ yaml_data = NoConfig
  /\ res = NoRes
  /\ enc = NoEnc
  /\ search_pattern = <<>>
  /\ replace_pattern = <<>>
  /\ sigs = NoSigs
  /\ stage = "start"
  /\ attempted = <<>>
  /\ opened = {}
  /\ last = NoCall
  /\ files0 = files
  /\ record0 = record
  /\ patchedAt = [i \in 1..NumTargets |-> -1]
  /\ patchedRun = [i \in 1..NumTargets |-> 0]
  /\ recordRun = 0
  /\ toolRecord = (record \in {NoRecord, EarlierRecord})
  /\ cleanStart = (record = NoRecord /\ files = CleanInstall)

\* patch(): yaml_data = read_yaml(...); return when None; width and height
\* are read from yaml_data['resolution'] (KeyError when the key is missing)
LoadConfig ==
  /\ pc = "start"
  /\ \E cfg \in Configs :
       /\ yaml_data' = cfg
       /\ pc' = IF config_outcome(cfg) = "return" THEN "done"
                ELSE IF config_outcome(cfg) = "KeyError" THEN "crashed"
                ELSE "desktop"
  /\ stage' = "config"
  /\ UNCHANGED <<idx, run, faults, files, record, res, enc, search_pattern,
                 replace_pattern, sigs, attempted, opened, last, files0, record0,
                 patchedAt, patchedRun, recordRun, toolRecord, cleanStart>>

\* desktop_width, desktop_height = get_desktop_resolution(), then the
\* substitution of the desktop resolution for a zero width or height
GetDesktop ==
  /\ pc = "desktop"
  /\ \E monitors \in MonitorLists :
       IF monitors = <<>>
       THEN /\ pc' = "crashed"
            /\ res' = res
       ELSE LET d == get_desktop_resolution(monitors)
                e == effective(yaml_data.width, yaml_data.height, d[1], d[2])
            IN  /\ pc' = "encode"
                /\ res' = [width |-> e[1], height |-> e[2], desktop_width |-> d[1],
                           desktop_height |-> d[2], offset |-> 0]
  /\ stage' = "desktop"
  /\ UNCHANGED <<idx, run, faults, files, record, yaml_data, enc, search_pattern,
                 replace_pattern, sigs, attempted, opened, last, files0, record0,
                 patchedAt, patchedRun, recordRun, toolRecord, cleanStart>>

\* the encodings: offset, special, width, height as 4 little-endian bytes,
\* rendered as hex text; the default search pattern and the replace pattern
EncodeFits ==
  /\ config_outcome(yaml_data) = "ok"
  /\ SpecialFits(res.height)
  /\ ToBytesFits(res.width)
  /\ ToBytesFits(res.height)
  /\ ToBytesFits(center_offset(res.desktop_width, res.width))

Encode ==
  /\ pc = "encode"
  /\ IF config_outcome(yaml_data) = "TypeError"
     THEN /\ pc' = "crashed"
          /\ UNCHANGED <<res, enc, search_pattern, replace_pattern>>
     ELSE /\ res' = [res EXCEPT !.offset = center_offset(res.desktop_width, res.width)]
          /\ IF EncodeFits
             THEN /\ enc' = [width |-> JoinHex(to_bytes(res.width)),
                             height |-> JoinHex(to_bytes(res.height)),
                             offset |-> JoinHex(to_bytes(res'.offset)),
                             special |-> JoinHex(special_bytes(res.height))]
                  /\ search_pattern' = default_search_pattern
                  /\ replace_pattern' = make_replace_pattern(enc'.width, enc'.height)
                  /\ pc' = "record"
             ELSE /\ pc' = "crashed"
                  /\ UNCHANGED <<enc, search_pattern, replace_pattern>>
  /\ stage' = "encode"
  /\ UNCHANGED <<idx, run, faults, files, record, yaml_data, sigs, attempted, opened,
                 last, files0, record0, patchedAt, patchedRun, recordRun, toolRecord, cleanStart>>

\* the search pattern patch() takes from patch.txt holding rec, read_env
\* being what the read does: the default when the file is absent or the read
\* fails, else the stripped first line
record_search_pattern(rec, read_env, default) ==
  IF ~rec.exists \/ read_env # "ok" THEN default ELSE Strip(FirstLine(rec.text))

\* with open("patch.txt", 'r'): data = file.readlines(); data[0].strip();
\* data[0] raises IndexError on a file with no line, which is not caught.
\* yaml_data, width, height, offset, special and the desktop resolution are
\* not read after this point of patch(); the model forgets them here.
ReadRecord ==
  /\ pc = "record"
  /\ \E read_env \in IoOutcomes :
       /\ faults' = IF record.exists /\ read_env # "ok" THEN faults + 1 ELSE faults
       /\ IF record.exists /\ read_env = "ok" /\ record.text = <<>>
          THEN /\ pc' = "crashed"
               /\ UNCHANGED <<search_pattern, idx>>
          ELSE /\ search_pattern' = record_search_pattern(record, read_env, search_pattern)
               /\ pc' = "edit"
               /\ idx' = 1
  /\ stage' = "record"
  /\ yaml_data' = NoConfig
  /\ res' = NoRes
  /\ enc' = NoEnc
  /\ UNCHANGED <<run, files, record, replace_pattern, sigs, attempted,
                 opened, last, files0, record0, patchedAt, patchedRun, recordRun, toolRecord, cleanStart>>

\* one of the six calls edit_dll(Targets[idx], search_pattern, replace_pattern).
\* Every call parses the same two patterns anew; the model parses them in the
\* first call and keeps the result in sigs for the other five.
EditDll ==
  /\ pc = "edit"
  /\ \E sig \in {IF idx = 1 THEN signatures(search_pattern, replace_pattern) ELSE sigs} :
     \E open_env \in OpenOutcomes, rec_env \in IoOutcomes :
       \E r \in {edit_dll(files[idx], record, sig, replace_pattern,
                          open_env, rec_env)} :
           /\ sigs' = sig
           /\ files' = [files EXCEPT ![idx] = r.data]
           /\ record' = r.record
           /\ faults' = IF r.result \in {"unopened", "recordfail"}
                        THEN faults + 1 ELSE faults
           /\ attempted' = Append(attempted, [file |-> idx, result |-> r.result])
           /\ opened' = opened \cup (IF "dll" \in r.opened THEN {Targets[idx]} ELSE {})
                               \cup (r.opened \ {"dll"})
           /\ last' = [file |-> idx, result |-> r.result, before |-> files[idx],
                       record_before |-> record, offset |-> r.offset,
                       sp |-> r.sp, rp |-> r.rp]
           /\ patchedAt' = IF r.result \in {"patched", "recordfail"}
                           THEN [patchedAt EXCEPT ![idx] = r.offset] ELSE patchedAt
           /\ patchedRun' = IF r.result \in {"patched", "recordfail"}
                            THEN [patchedRun EXCEPT ![idx] = run] ELSE patchedRun
           /\ recordRun' = IF r.result = "patched" THEN run ELSE recordRun
           /\ pc' = IF r.result = "valueerror" THEN "crashed"
                    ELSE IF idx = NumTargets THEN "done" ELSE "edit"
           /\ idx' = IF r.result = "valueerror" \/ idx = NumTargets THEN idx ELSE idx + 1
  /\ stage' = "patching"
  /\ UNCHANGED <<run, yaml_data, res, enc, search_pattern, replace_pattern,
                 files0, record0, toolRecord, cleanStart>>

\* the process ends; the tool is started again later
Restart ==
  /\ pc \in {"done", "crashed"}
  /\ run < MaxRuns
  /\ run' = run + 1
  /\ pc' = "start"
  /\ idx' = 0
  /\ yaml_data' = NoConfig
  /\ res' = NoRes
  /\ enc' = NoEnc
  /\ search_pattern' = <<>>
  /\ replace_pattern' = <<>>
  /\ sigs' = NoSigs
  /\ stage' = "start"
  /\ attempted' = <<>>
  /\ opened' = {}
  /\ last' = NoCall
  /\ files0' = files
  /\ record0' = record
  /\ toolRecord' = (toolRecord \/ \E i \in 1..Len(attempted) : attempted[i].result = "patched")
  /\ UNCHANGED <<faults, files, record, patchedAt, patchedRun, recordRun, cleanStart>>

Next == LoadConfig \/ GetDesktop \/ Encode \/ ReadRecord \/ EditDll \/ Restart

Spec == Init /\ [][Next]_vars

\* ------------------------------------------------------------- properties
\* sp occurs in data at offset o, stated without find
OccursAt(data, sp, o) ==
  /\ o >= 0
  /\ o + Len(sp) <= Len(data)
  /\ \A j \in 1..Len(sp) : data[o + j] = sp[j]
FirstAt(data, sp, o) ==
  OccursAt(data, sp, o) /\ \A k \in 0..(o - 1) : ~OccursAt(data, sp, k)
Absent(data, sp) == \A o \in 0..Len(data) : ~OccursAt(data, sp, o)

\* the little-endian unsigned value of a byte sequence
RECURSIVE from_bytes(_)
from_bytes(bs) == IF bs = <<>> THEN 0 ELSE bs[1] + 256 * from_bytes(Tail(bs))

Wrote == last.result \in {"patched", "recordfail"}
Opened == last.result \in {"notfound", "patched", "recordfail"}
After == files[last.file]
TableLen == TableSlots * 2 * BytesPerInt
ResultsOfRun == {attempted[i].result : i \in 1..Len(attempted)}
FilesOfRun == [i \in 1..Len(attempted) |-> attempted[i].file]

\* C1, as stated: after a successful edit the replacement sits at the first
\* occurrence of the search sequence, exactly Len(search) bytes are
\* overwritten, the length is unchanged and all other bytes are the original
C1_AsStated ==
  Wrote =>
    /\ FirstAt(last.before, last.sp, last.offset)
    /\ Len(After) = Len(last.before)
    /\ SubSeq(After, last.offset + 1, last.offset + Len(last.rp)) = last.rp
    /\ \A i \in 1..Len(last.before) :
         (i <= last.offset \/ i > last.offset + Len(last.sp)) => After[i] = last.before[i]

\* C1, amended: the replacement sits at the first occurrence of the search
\* sequence; the bytes overwritten are as many as the REPLACEMENT is long (the
\* file grows when they run past its end); every byte outside that range is
\* the original; with search and replacement of equal length the statement
\* above holds as it stands
C1_EditFrame ==
  Wrote =>
    /\ FirstAt(last.before, last.sp, last.offset)
    /\ SubSeq(After, last.offset + 1, last.offset + Len(last.rp)) = last.rp
    /\ Len(After) = IF last.offset + Len(last.rp) > Len(last.before)
                    THEN last.offset + Len(last.rp) ELSE Len(last.before)
    /\ \A i \in 1..Len(last.before) :
         (i <= last.offset \/ i > last.offset + Len(last.rp)) => After[i] = last.before[i]
    /\ Len(last.sp) = Len(last.rp) =>
         /\ Len(After) = Len(last.before)
         /\ \A i \in 1..Len(last.before) :
              (i <= last.offset \/ i > last.offset + Len(last.sp)) =>
                After[i] = last.before[i]

\* a file holding the table twice was patched at the first of the two
C1_Witness ==
  /\ last.result = "patched"
  /\ last.before = TableTwice
  /\ Len(last.sp) = Len(last.rp)
  /\ After # last.before

\* C2: when the search sequence is absent from the opened target, edit_dll
\* reports not-found, no exception leaves it, and the target and patch.txt
\* are as before the call
C2_NotFoundNoChange ==
  (Opened /\ Absent(last.before, last.sp)) =>
    /\ last.result = "notfound"
    /\ pc # "crashed"
    /\ After = last.before
    /\ record = last.record_before

C2_Witness ==
  /\ last.result = "notfound"
  /\ Absent(last.before, last.sp)
  /\ last.before = OtherBuild
  /\ pc = "edit"

\* C3, as stated: a run that reached the six edit_dll calls has, when it ends,
\* attempted the six targets once each, in order
C3_AsStated ==
  (stage = "patching" /\ pc \in {"done", "crashed"}) =>
    FilesOfRun = [i \in 1..NumTargets |-> i]

C5_AsStated ==
  (stage = "encode" /\ yaml_data.kind = "ok" /\ SpecialFits(res.height)
     /\ ToBytesFits(res.width)) =>
    /\ res.offset = (res.desktop_width - res.width) \div 2
    /\ pc = "record"
    /\ parse_signature(enc.offset).bytes = to_bytes(res.offset)

\* C6, as stated: for a configured width > 0 and height > 0 the run produces
\* encodings that decode to the configured values
C6_AsStated ==
  (stage = "encode" /\ yaml_data.kind = "ok" /\ yaml_data.width > 0
     /\ yaml_data.height > 0) =>
    /\ pc = "record"
    /\ from_bytes(parse_signature(enc.width).bytes) = yaml_data.width
    /\ from_bytes(parse_signature(enc.height).bytes) = yaml_data.height

\* C7: every slot of the replacement pattern decodes to the desktop
\* resolution when the configured width or height is 0, and to the configured
\* values otherwise
SlotBytes(bytes, k, field) ==
  SubSeq(bytes, 2 * BytesPerInt * (k - 1) + BytesPerInt * field + 1,
         2 * BytesPerInt * (k - 1) + BytesPerInt * field + BytesPerInt)
C7_EffectiveResolution ==
  pc = "record" =>
    LET bytes == parse_signature(replace_pattern).bytes
        zero == yaml_data.width = 0 \/ yaml_data.height = 0
        w == IF zero THEN res.desktop_width ELSE yaml_data.width
        h == IF zero THEN res.desktop_height ELSE yaml_data.height
    IN  /\ Len(bytes) = TableLen
        /\ \A k \in 1..TableSlots :
             /\ from_bytes(SlotBytes(bytes, k, 0)) = w
             /\ from_bytes(SlotBytes(bytes, k, 1)) = h

C7_Witness ==
  /\ pc = "record"
  /\ yaml_data.width = 0
  /\ yaml_data.height = 600
  /\ res.desktop_width = 1920

NextSearch == parse_signature(record_search_pattern(record, "ok", default_search_pattern)).bytes
HeldTable(i, n) == SubSeq(files[i], patchedAt[i] + 1, patchedAt[i] + n)

C10_EqualLengths ==
  (toolRecord /\ last.result # "none") =>
    /\ last.result # "valueerror"
    /\ Len(last.sp) = TableLen
    /\ Len(last.rp) = TableLen
    /\ Wrote =>
         /\ Len(After) = Len(last.before)
         /\ SubSeq(After, last.offset + 1, last.offset + Len(last.sp)) = last.rp

C10_Witness ==
  /\ toolRecord
  /\ run = 2
  /\ record0.exists
  /\ last.result = "patched"

====
